---- MODULE Spec2Model ----
(***************************************************************************)
(* The e-commerce customer service agent of src/agent.py: the output       *)
(* parser (SafeOutputParser), the conversation memory, the executor loop   *)
(* of one user turn, the error classification of process_message, the      *)
(* conversation reset, the backend switch (also called concurrently), the   *)
(* construction of the agent with its backend fallbacks, and the tools of   *)
(* src/tools.py.                                                            *)
(*                                                                         *)
(* Strings are sequences of tokens.  A token is a piece of text that the   *)
(* code never looks inside: one of the three markers the parser searches   *)
(* for, a newline, a blank, or a word without markers and whitespace.      *)
(* The empty string is << >> and concatenation is \o.                      *)
(***************************************************************************)
EXTENDS Integers, Sequences, FiniteSets, TLC

VARIABLES
  llm,                \* self.llm: identifier of the active backend
  agent,              \* self.agent: the runnable built from a backend
  agent_executor,     \* self.agent_executor: agent, ceiling, output parser
  parser_honoured,    \* whether the executor class uses its output_parser argument
  tools,              \* self.tools: the names of the tools, in their order
  memory,             \* self.memory.chat_memory.messages
  pc,                 \* "idle", or "loop" while process_message runs
  message,            \* process_message's argument message
  input,              \* enhanced_message, the executor's input of this turn
  iterations,         \* the executor's iteration counter of this turn
  intermediate_steps, \* the scratchpad of this turn
  response,           \* the string the last process_message call returned
  ended,              \* how the last turn ended
  turns,              \* process_message calls so far
  switch_result,      \* what the last switch_model call returned ("none" before any)
  text,               \* the parser's input (parser specification)
  outcome,            \* the parser's result (parser specification)
  error,              \* str(e) of a raised error (classifier specification)
  error_msg,          \* the classifier's message (classifier specification)
  env,                \* the environment: API key set, backends that construct, that answer
  init_pc,            \* position of __init__: "init", "fallback", "ready", "failed"
  attrs,              \* the attributes of self that __init__ has assigned
  attempts,           \* the backends tried so far, in order, with their outcome
  callers,            \* the concurrent callers of switch_model, each with its position
  observed,           \* the executor a concurrent process_message read from self
  tool_call,          \* a tool and its input (tool specification)
  tool_result,        \* what the tool returned or raised (tool specification)
  orders,             \* order_db.orders: status and can_cancel of every order
  history,            \* what the last get_conversation_history call returned
  sessions,           \* customer_context_manager.sessions: a context per session id
  ui,                 \* st.session_state of every session: the login state
  passed,             \* the context passed with the last message of every session
  actor,              \* the session that acted last, and what it did
  cancellers          \* the concurrent callers of cancel_order, each with its position

constructionVars == <<env, init_pc, attrs, attempts>>

concurrencyVars == <<callers, observed>>

toolVars == <<tool_call, tool_result, orders>>

sessionVars == <<history, sessions, ui, passed, actor, cancellers>>

asideVars == <<constructionVars, concurrencyVars, toolVars, sessionVars>>

vars == <<llm, agent, agent_executor, parser_honoured, tools, memory, pc, message,
          input, iterations, intermediate_steps,
          response, ended, turns, switch_result, text, outcome, error,
          error_msg, env, init_pc, attrs, attempts, callers, observed,
          tool_call, tool_result, orders, history, sessions, ui, passed, actor,
          cancellers>>

agentVars == <<llm, agent, agent_executor, parser_honoured, tools, memory, pc, message,
               input, iterations, intermediate_steps, response, ended, turns,
               switch_result>>

(***************************************************************************)
(* Bounds of the model.                                                    *)
(***************************************************************************)
MaxLen == 5

MaxErrLen == 2

MaxTurns == 2

MaxTurnsLong == 11

MaxParsingErrors == 1

MaxSwitchCalls == 1

MaxCancelCalls == 1

(***************************************************************************)
(* Tokens.                                                                 *)
(***************************************************************************)
FinalAnswerMarker == "Final Answer:"

ActionMarker == "Action: "

ActionInputMarker == "Action Input: "

NL == "\n"

SP == " "

Words == {"a", "b"}

Tokens == {FinalAnswerMarker, ActionMarker, ActionInputMarker, NL, SP} \cup Words

IsSpace(t) == t \in {NL, SP}

SeqsUpTo(S, n) == UNION {[1..m -> S] : m \in 0..n}

(***************************************************************************)
(* str.strip(): whitespace is removed from both ends.  The token           *)
(* "Action: " ends with a blank, which strip removes when the token is     *)
(* the last one left.                                                      *)
(***************************************************************************)
RECURSIVE LStrip(_)
LStrip(s) ==
  IF s = << >> THEN << >>
  ELSE IF IsSpace(Head(s)) THEN LStrip(Tail(s))
  ELSE s

RStripToken(t) ==
  IF t = ActionMarker THEN "Action:"
  ELSE IF t = ActionInputMarker THEN "Action Input:"
  ELSE t

RECURSIVE RStrip(_)
RStrip(s) ==
  IF s = << >> THEN << >>
  ELSE IF IsSpace(s[Len(s)]) THEN RStrip(SubSeq(s, 1, Len(s) - 1))
  ELSE [s EXCEPT ![Len(s)] = RStripToken(s[Len(s)])]

Strip(s) == RStrip(LStrip(s))

(***************************************************************************)
(* sep in s, and s.split(sep)[-1]: split cuts s at every occurrence of     *)
(* sep, scanning from the left, and [-1] takes the last piece.             *)
(***************************************************************************)
Contains(s, sep) == \E i \in 1..Len(s) : s[i] = sep

RECURSIVE Split(_, _, _, _)
Split(s, sep, piece, pieces) ==
  IF s = << >> THEN Append(pieces, piece)
  ELSE IF Head(s) = sep THEN Split(Tail(s), sep, << >>, Append(pieces, piece))
  ELSE Split(Tail(s), sep, Append(piece, Head(s)), pieces)

SplitSecond(s, sep) ==
  LET pieces == Split(s, sep, << >>, << >>) IN pieces[2]

SplitLast(s, sep) ==
  LET pieces == Split(s, sep, << >>, << >>) IN pieces[Len(pieces)]

(***************************************************************************)
(* re.search of the action pattern (an "Action: " line followed at once    *)
(* by an "Action Input: " line, one group on each): the leftmost           *)
(* position where the pattern matches.  "." matches no newline, so the     *)
(* first group runs to the end of its line, the newline and                *)
(* "Action Input: " must follow at once, and the second group runs to the  *)
(* end of that line.  0 stands for no match.                               *)
(***************************************************************************)
RECURSIVE LineEnd(_, _)
LineEnd(s, i) ==
  IF i > Len(s) THEN Len(s) + 1
  ELSE IF s[i] = NL THEN i
  ELSE LineEnd(s, i + 1)

MatchAt(s, i) ==
  /\ s[i] = ActionMarker
  /\ LET j == LineEnd(s, i + 1) IN
       /\ j + 1 <= Len(s)
       /\ s[j + 1] = ActionInputMarker

RECURSIVE ReSearch(_, _)
ReSearch(s, i) ==
  IF i > Len(s) THEN 0
  ELSE IF MatchAt(s, i) THEN i
  ELSE ReSearch(s, i + 1)

Group1(s, i) == SubSeq(s, i + 1, LineEnd(s, i + 1) - 1)

Group2(s, i) ==
  LET j == LineEnd(s, i + 1) IN SubSeq(s, j + 2, LineEnd(s, j + 2) - 1)

(***************************************************************************)
(* SafeOutputParser.parse.  Nothing in the try block raises for a string,  *)
(* so the except branch ("[Unparsed Output]") is never taken.              *)
(***************************************************************************)
AgentFinish(output, log) == [type |-> "Finish", output |-> output, log |-> log]

AgentAction(tool, tool_input, log) ==
  [type |-> "Action", tool |-> tool, tool_input |-> tool_input, log |-> log]

ParseFinalAnswer(s) == AgentFinish(Strip(SplitLast(s, FinalAnswerMarker)), s)

ParseActionUnstripped(s) ==
  LET i == ReSearch(s, 1) IN AgentAction(Group1(s, i), Group2(s, i), s)

ParseAction(s) ==
  LET i == ReSearch(s, 1) IN
  AgentAction(Strip(Group1(s, i)), Strip(Group2(s, i)), s)

ParseFallbackUnstripped(s) == AgentFinish(s, s)

ParseFallback(s) == AgentFinish(Strip(s), s)

SafeParse(s) ==
  IF Contains(s, FinalAnswerMarker) THEN ParseFinalAnswer(s)
  ELSE IF ReSearch(s, 1) # 0 THEN ParseAction(s)
  ELSE ParseFallback(s)

(***************************************************************************)
(* The output parser of an executor built without output_parser: the       *)
(* ReAct single-input parser.  Its action pattern spans lines: the first   *)
(* "Action:" that has an "Action Input:" after it, the tool name between   *)
(* the two, and everything after "Action Input:" as the tool input.  A     *)
(* text with an action and a final answer, or with neither, is a parsing   *)
(* error.                                                                  *)
(***************************************************************************)
RECURSIVE FirstIndex(_, _, _)
FirstIndex(s, t, i) ==
  IF i > Len(s) THEN 0
  ELSE IF s[i] = t THEN i
  ELSE FirstIndex(s, t, i + 1)

RECURSIVE StripBlanks(_)
StripBlanks(s) ==
  IF s = << >> THEN << >>
  ELSE IF Head(s) = SP THEN StripBlanks(Tail(s))
  ELSE IF s[Len(s)] = SP THEN StripBlanks(SubSeq(s, 1, Len(s) - 1))
  ELSE s

ParsingError(log) == [type |-> "ParsingError", log |-> log]

ReactParse(s) ==
  LET i == FirstIndex(s, ActionMarker, 1)
      j == IF i = 0 THEN 0 ELSE FirstIndex(s, ActionInputMarker, i + 1)
  IN  IF j # 0
      THEN IF Contains(s, FinalAnswerMarker) THEN ParsingError(s)
           ELSE AgentAction(Strip(SubSeq(s, i + 1, j - 1)),
                            StripBlanks(LStrip(SubSeq(s, j + 1, Len(s)))), s)
      ELSE IF Contains(s, FinalAnswerMarker) THEN ParseFinalAnswer(s)
      ELSE ParsingError(s)

Parse(parser, s) == IF parser = "SafeOutputParser" THEN SafeParse(s) ELSE ReactParse(s)

(***************************************************************************)
(* The error classification of process_message's except branch:            *)
(* str(e).lower() is searched for "rate limit", then for "authentication"  *)
(* or "api key", then for "timeout".  An error text is a sequence of       *)
(* phrases; Lower maps a phrase to its lower-case form.                    *)
(***************************************************************************)
ErrorPhrases ==
  {"rate limit", "Rate Limit", "Authentication", "api key", "API Key",
   "timeout", "Timeout", "connection reset"}

Lower(t) ==
  CASE t = "Rate Limit" -> "rate limit"
    [] t = "Authentication" -> "authentication"
    [] t = "API Key" -> "api key"
    [] t = "Timeout" -> "timeout"
    [] OTHER -> t

LowerStr(e) == [i \in 1..Len(e) |-> Lower(e[i])]

HighDemandMsg ==
  <<"I'm currently experiencing high demand. Please wait a moment and try again.">>

AuthenticationMsg ==
  <<"There seems to be an issue with the API authentication. Please contact support.">>

TimedOutMsg ==
  <<"The request timed out. Please try again with a shorter message.">>

GenericMsg(e) ==
  <<"I apologize, but I encountered an error while processing your request: ">> \o e

ClassifyTimeoutFirst(e) ==
  IF Contains(LowerStr(e), "timeout") THEN TimedOutMsg
  ELSE IF Contains(LowerStr(e), "rate limit") THEN HighDemandMsg
  ELSE IF Contains(LowerStr(e), "authentication") \/ Contains(LowerStr(e), "api key")
       THEN AuthenticationMsg
  ELSE GenericMsg(e)

Classify(e) ==
  IF Contains(LowerStr(e), "rate limit") THEN HighDemandMsg
  ELSE IF Contains(LowerStr(e), "authentication") \/ Contains(LowerStr(e), "api key")
       THEN AuthenticationMsg
  ELSE IF Contains(LowerStr(e), "timeout") THEN TimedOutMsg
  ELSE GenericMsg(e)

(***************************************************************************)
(* The backends, the tools and the inputs of the model.                    *)
(***************************************************************************)
PrimaryModel == "llama3-70b-8192"

FallbackModels == <<"llama3-8b-8192", "mixtral-8x7b-32768", "gemma2-9b-it">>

SwitchTargets == {"gemma2-9b-it"}

ToolNames ==
  <<"order_status", "cancel_order", "process_return", "search_products",
    "product_details", "customer_info", "get_customer_orders",
    "search_orders_by_email", "update_preferences", "get_weather",
    "product_recommendations", "ask_query">>

WindowK == 10

CeilingAtConstruction == 5

CeilingAfterSwitch == 10

CeilingMsg == <<"Agent stopped due to iteration limit or time limit.">>

Messages == {<<"Where", SP, "is", SP, "ORD001?">>}

Contexts == {"None", "{}", "{'customer_id': 'CUST001'}"}

FinalText == <<FinalAnswerMarker, SP, "Hello!">>

EmptyFinalText == <<FinalAnswerMarker>>

ActionAndFinalText ==
  <<ActionMarker, "order_status", NL, ActionInputMarker, "ORD001", NL,
    FinalAnswerMarker, SP, "Hello!">>

ActionText == <<ActionMarker, "order_status", NL, ActionInputMarker, "ORD001">>

FailingActionText ==
  <<ActionMarker, "update_preferences", NL, ActionInputMarker, "CUST001">>

BackendTexts ==
  {FinalText, EmptyFinalText, ActionAndFinalText, ActionText, FailingActionText}

UnknownToolText ==
  <<ActionMarker, "nonexistent_tool", NL, ActionInputMarker, "ORD001">>

WrongCaseToolText ==
  <<ActionMarker, "Order_Status", NL, ActionInputMarker, "ORD001">>

DispatchTexts == {UnknownToolText, WrongCaseToolText, ActionText, FailingActionText}

BackendErrors == {<<"Rate Limit", SP, "reached">>, <<"connection reset">>}

(***************************************************************************)
(* process_message's prologue: the context annotation of the input and     *)
(* the rendering of the stored messages.                                   *)
(***************************************************************************)
Truthy(ctx) == ctx \notin {"None", "{}"}

EnhancedMessage(m, ctx) ==
  IF Truthy(ctx) THEN m \o <<NL, "Customer Context: ", ctx>> ELSE m

RECURSIVE RenderHistory(_)
RenderHistory(msgs) ==
  IF msgs = << >> THEN << >>
  ELSE LET msg == Head(msgs) IN
       (IF msg.type = "human" THEN <<"Human: ">> \o msg.content \o <<NL>>
        ELSE <<"AI: ">> \o msg.content \o <<NL>>)
       \o RenderHistory(Tail(msgs))

(***************************************************************************)
(* ConversationBufferWindowMemory(k = 10): save_context appends a human    *)
(* and an AI message to chat_memory.messages; load_memory_variables hands  *)
(* the executor the last 2 * k messages; clear empties the messages.       *)
(***************************************************************************)
HumanMessage(c) == [type |-> "human", content |-> c]

AIMessage(c) == [type |-> "ai", content |-> c]

SaveContextInputOnly(msgs, in, out) == msgs \o <<HumanMessage(in)>>

SaveContext(msgs, in, out) == msgs \o <<HumanMessage(in), AIMessage(out)>>

LoadMemoryVariables(msgs) ==
  IF Len(msgs) <= 2 * WindowK THEN msgs
  ELSE SubSeq(msgs, Len(msgs) - 2 * WindowK + 1, Len(msgs))

(***************************************************************************)
(* The history process_message renders for the executor's inputs, the      *)
(* chat_history the executor's prompt gets instead (its memory's           *)
(* variables replace the caller's), and get_conversation_history.  The     *)
(* memory does not change while a turn runs, so the first two are          *)
(* functions of it.                                                        *)
(***************************************************************************)
ChatHistory == RenderHistory(memory)

PromptHistory == LoadMemoryVariables(memory)

GetConversationHistory ==
  [i \in 1..Len(memory) |->
     [role |-> IF memory[i].type = "human" THEN "user" ELSE "assistant",
      content |-> memory[i].content]]

(***************************************************************************)
(* The mock databases that src/tools.py creates at import, as far as the   *)
(* tools read them: status and can_cancel of the orders, the customers     *)
(* with their e-mail addresses, the products with their names.             *)
(***************************************************************************)
Order(status, can_cancel) == [status |-> status, can_cancel |-> can_cancel]

OrdersAtImport ==
  [id \in {"ORD001", "ORD002", "ORD003", "ORD004", "ORD005", "ORD006"} |->
     CASE id = "ORD001" -> Order("shipped", FALSE)
       [] id = "ORD002" -> Order("processing", TRUE)
       [] id = "ORD003" -> Order("delivered", FALSE)
       [] id = "ORD004" -> Order("processing", TRUE)
       [] id = "ORD005" -> Order("delivered", FALSE)
       [] id = "ORD006" -> Order("processing", TRUE)]

CustomerIds == {"CUST001", "CUST002", "CUST003", "CUST004", "CUST005"}

CustomerEmails ==
  {"john.doe@email.com", "jane.smith@email.com", "alice.johnson@email.com",
   "bob.brown@email.com", "carol.white@email.com"}

ProductIds ==
  {"PROD001", "PROD002", "PROD003", "PROD004", "PROD005", "PROD006", "PROD007",
   "PROD008", "PROD009", "PROD010"}

ProductNameParts == {"Headphones", "Watch", "Case", "Lamp", "Mug"}

(***************************************************************************)
(* The tools: _run of each tool on one input text, the value of the        *)
(* tool's first field; the other fields have their defaults.  A result is  *)
(* the returned text or the raised error.  cancel_order also changes the   *)
(* order.                                                                  *)
(***************************************************************************)
NoCall == [name |-> "none", arg |-> << >>]

NoResult == [kind |-> "none"]

Returned(t) == [kind |-> "returned", text |-> t]

Raised(e) == [kind |-> "raised", error |-> e]

Known(arg, ids) == Len(arg) = 1 /\ arg[1] \in ids

CancelOrder(db, arg) ==
  IF ~Known(arg, DOMAIN db) THEN <<"Order not found">>
  ELSE IF ~db[arg[1]].can_cancel
       THEN <<"Order cannot be cancelled (already shipped/delivered)">>
  ELSE <<"Order cancelled successfully">>

OrdersAfterCancelUnchecked(db, arg) ==
  IF Known(arg, DOMAIN db)
  THEN [db EXCEPT ![arg[1]] = Order("cancelled", FALSE)]
  ELSE db

OrdersAfterCancel(db, arg) ==
  IF Known(arg, DOMAIN db) /\ db[arg[1]].can_cancel
  THEN [db EXCEPT ![arg[1]] = Order("cancelled", FALSE)]
  ELSE db

ProcessReturn(db, arg) ==
  IF ~Known(arg, DOMAIN db) THEN <<"Order not found">>
  ELSE IF db[arg[1]].status # "delivered"
       THEN <<"Order must be delivered to process return">>
  ELSE <<"Return request processed. Return ID: RET", "id",
         ". Please ship items back within 30 days.">>

UpdatePreferences(db, arg) ==
  Raised(<<"'MockCustomerDatabase' object has no attribute 'update_preferences'">>)

ToolRun(name, arg, db) ==
  CASE name = "order_status" ->
         IF Known(arg, DOMAIN db)
         THEN Returned(<<"FINAL ANSWER: Order Details Found", NL, "Order ID: ">> \o arg
                       \o <<NL, "Status: ", db[arg[1]].status>>)
         ELSE Returned(<<"RESULT: Order ">> \o arg \o <<" not found.">>)
    [] name = "cancel_order" -> Returned(<<"RESULT: ">> \o CancelOrder(db, arg))
    [] name = "process_return" -> Returned(<<"RESULT: ">> \o ProcessReturn(db, arg))
    [] name = "search_products" ->
         IF arg = << >> \/ Known(arg, ProductNameParts)
         THEN Returned(<<"RESULT: Found ", "n", " product(s):">>)
         ELSE Returned(<<"RESULT: No products found for '">> \o arg \o <<"'">>)
    [] name = "product_details" ->
         IF Known(arg, ProductIds)
         THEN Returned(<<"RESULT: Product Details Found", NL>> \o arg)
         ELSE Returned(<<"RESULT: Product ">> \o arg \o <<" not found.">>)
    [] name = "customer_info" ->
         IF arg = << >>
         THEN Returned(<<"RESULT: Error - Please provide either customer ID or email address.">>)
         ELSE IF Known(arg, CustomerIds)
              THEN Returned(<<"RESULT: Customer Information Found", NL>> \o arg)
         ELSE Returned(<<"RESULT: Customer ID ">> \o arg \o <<" not found in our system.">>)
    [] name = "get_customer_orders" ->
         IF Known(arg, CustomerIds)
         THEN Returned(<<"RESULT: Orders found for ">> \o arg)
         ELSE Returned(<<"RESULT: Customer ID ">> \o arg \o <<" not found.">>)
    [] name = "search_orders_by_email" ->
         IF Known(arg, CustomerEmails)
         THEN Returned(<<"RESULT: Orders found for ">> \o arg)
         ELSE Returned(<<"RESULT: No customer found with email ">> \o arg)
    [] name = "update_preferences" -> UpdatePreferences(db, arg)
    [] name = "get_weather" -> Returned(<<"RESULT: Weather in ">> \o arg)
    [] name = "product_recommendations" ->
         Returned(<<"RESULT: Here are some recommended products:">>)
    [] name = "ask_query" ->
         Returned(<<"RESULT: Could you please provide more details or clarify your request so I can assist you better?">>)

ToolArgs ==
  {<<"ORD001">>, <<"ORD002">>, <<"ORD003">>, <<"ORD999">>, <<"CUST001">>,
   <<"john.doe@email.com">>, <<"PROD001">>, <<"Headphones">>, << >>}

RunTool ==
  /\ \E i \in 1..Len(ToolNames), arg \in ToolArgs :
       /\ tool_call' = [name |-> ToolNames[i], arg |-> arg]
       /\ tool_result' = ToolRun(ToolNames[i], arg, orders)
       /\ orders' = IF ToolNames[i] = "cancel_order"
                    THEN OrdersAfterCancel(orders, arg) ELSE orders
  /\ UNCHANGED <<agentVars, text, outcome, error, error_msg,
                 constructionVars, concurrencyVars, sessionVars>>

(***************************************************************************)
(* The executor: construction, the loop condition, the effective output    *)
(* parser and the dispatch of an action to a tool.                         *)
(***************************************************************************)
CreateReactAgent(model) == [llm |-> model]

ExecutorAtConstruction(ag) ==
  [agent |-> ag, max_iterations |-> CeilingAtConstruction,
   output_parser |-> "SafeOutputParser"]

ExecutorAfterSwitch(ag) ==
  [agent |-> ag, max_iterations |-> CeilingAfterSwitch,
   output_parser |-> "default"]

EffectiveParser(ex) ==
  IF parser_honoured THEN ex.output_parser ELSE "default"

ShouldContinueOffByOne(ex, n) == n <= ex.max_iterations

ShouldContinue(ex, n) == n < ex.max_iterations

IsRegistered(tool) ==
  Len(tool) = 1 /\ \E i \in 1..Len(tools) : tools[i] = tool[1]

ToolRaisesWhenUnregistered(tool) ==
  tool = <<"update_preferences">> \/ ~IsRegistered(tool)

ToolRaises(tool) == tool = <<"update_preferences">>

ToolError(tool) == <<"tool", SP>> \o tool \o <<SP, "failed">>

InvalidTool(tool) ==
  tool \o <<" is not a valid tool, try one of [">> \o tools \o <<"].">>

Observation(tool, tool_input) ==
  IF IsRegistered(tool) THEN ToolRun(tool[1], tool_input, orders).text
  ELSE InvalidTool(tool)

OrdersAfterDispatch(tool, tool_input) ==
  IF tool = <<"cancel_order">> THEN OrdersAfterCancel(orders, tool_input) ELSE orders

InvalidResponseStep(log) ==
  [tool |-> <<"_Exception">>, tool_input |-> <<"Invalid or incomplete response">>,
   log |-> log, observation |-> <<"Invalid or incomplete response">>]

CatchesBackendErrorsOnly(e) == e \in BackendErrors

Catches(e) == TRUE

(***************************************************************************)
(* process_message, step by step.                                          *)
(***************************************************************************)
backendVars == <<llm, agent, agent_executor, parser_honoured, tools, switch_result>>

pureVars == <<text, outcome>>

EndOfTurn ==
  /\ pc' = "idle"
  /\ message' = << >>
  /\ input' = << >>
  /\ iterations' = 0
  /\ intermediate_steps' = << >>
  /\ UNCHANGED turns

Returns(out, kind) ==
  /\ memory' = SaveContext(SaveContext(memory, input, out), message, out)
  /\ response' = out
  /\ ended' = kind
  /\ EndOfTurn
  /\ UNCHANGED <<error, error_msg>>

ExceptsWithoutSave(e) ==
  /\ error' = e
  /\ error_msg' = Classify(e)
  /\ memory' = memory
  /\ response' = Classify(e)
  /\ ended' = "error"
  /\ EndOfTurn

ExceptsDropsMemory(e) ==
  /\ error' = e
  /\ error_msg' = Classify(e)
  /\ memory' = SaveContext(<< >>, message, Classify(e))
  /\ response' = Classify(e)
  /\ ended' = "error"
  /\ EndOfTurn

Excepts(e) ==
  /\ error' = e
  /\ IF Catches(e)
     THEN /\ error_msg' = Classify(e)
          /\ memory' = SaveContext(memory, message, Classify(e))
          /\ response' = Classify(e)
          /\ ended' = "error"
     ELSE /\ error_msg' = << >>
          /\ memory' = memory
          /\ response' = << >>
          /\ ended' = "raised"
  /\ EndOfTurn

ProcessMessage(M, C, bound) ==
  /\ pc = "idle"
  /\ turns < bound
  /\ \E m \in M, ctx \in C :
       /\ message' = m
       /\ input' = EnhancedMessage(m, ctx)
  /\ iterations' = 0
  /\ intermediate_steps' = << >>
  /\ pc' = "loop"
  /\ turns' = turns + 1
  /\ UNCHANGED <<memory, response, ended, error, error_msg>>
  /\ UNCHANGED <<backendVars, pureVars, asideVars>>

BackendRaisesAndFallsBack(E) ==
  /\ pc = "loop"
  /\ ShouldContinue(agent_executor, iterations)
  /\ \E e \in E : Excepts(e)
  /\ llm' = FallbackModels[1]
  /\ agent' = CreateReactAgent(FallbackModels[1])
  /\ agent_executor' = ExecutorAtConstruction(CreateReactAgent(FallbackModels[1]))
  /\ UNCHANGED <<parser_honoured, tools, switch_result, pureVars, asideVars>>

BackendRaises(E) ==
  /\ pc = "loop"
  /\ ShouldContinue(agent_executor, iterations)
  /\ \E e \in E : Excepts(e)
  /\ UNCHANGED <<backendVars, pureVars, asideVars>>

BackendFinishes(T) ==
  /\ pc = "loop"
  /\ ShouldContinue(agent_executor, iterations)
  /\ \E t \in T :
       LET parsed == Parse(EffectiveParser(agent_executor), t) IN
       /\ parsed.type = "Finish"
       /\ Returns(parsed.output, "final")
  /\ UNCHANGED <<backendVars, pureVars, asideVars>>

BackendActs(T) ==
  /\ pc = "loop"
  /\ ShouldContinue(agent_executor, iterations)
  /\ \E t \in T :
       LET parsed == Parse(EffectiveParser(agent_executor), t) IN
       /\ parsed.type = "Action"
       /\ ~ToolRaises(parsed.tool)
       /\ intermediate_steps' = Append(intermediate_steps,
            [tool |-> parsed.tool, tool_input |-> parsed.tool_input,
             log |-> parsed.log,
             observation |-> Observation(parsed.tool, parsed.tool_input)])
       /\ orders' = OrdersAfterDispatch(parsed.tool, parsed.tool_input)
  /\ iterations' = iterations + 1
  /\ UNCHANGED <<memory, pc, message, input, response, ended, turns, error, error_msg>>
  /\ UNCHANGED <<backendVars, pureVars, constructionVars, concurrencyVars,
                 tool_call, tool_result, sessionVars>>

ToolFails(T) ==
  /\ pc = "loop"
  /\ ShouldContinue(agent_executor, iterations)
  /\ \E t \in T :
       LET parsed == Parse(EffectiveParser(agent_executor), t) IN
       /\ parsed.type = "Action"
       /\ ToolRaises(parsed.tool)
       /\ Excepts(ToolError(parsed.tool))
  /\ UNCHANGED <<backendVars, pureVars, asideVars>>

\* The backend's malformed texts of a turn come before its first tool call,
\* at most MaxParsingErrors of them.
ParsingErrorHandled(T) ==
  /\ pc = "loop"
  /\ ShouldContinue(agent_executor, iterations)
  /\ Len(intermediate_steps) < MaxParsingErrors
  /\ \A i \in 1..Len(intermediate_steps) :
       intermediate_steps[i].tool = <<"_Exception">>
  /\ \E t \in T :
       LET parsed == Parse(EffectiveParser(agent_executor), t) IN
       /\ parsed.type = "ParsingError"
       /\ intermediate_steps' = Append(intermediate_steps, InvalidResponseStep(t))
  /\ iterations' = iterations + 1
  /\ UNCHANGED <<memory, pc, message, input, response, ended, turns, error, error_msg>>
  /\ UNCHANGED <<backendVars, pureVars, asideVars>>

CeilingReached ==
  /\ pc = "loop"
  /\ ~ShouldContinue(agent_executor, iterations)
  /\ Returns(CeilingMsg, "ceiling")
  /\ UNCHANGED <<backendVars, pureVars, asideVars>>

(***************************************************************************)
(* reset_conversation and switch_model.                                    *)
(***************************************************************************)
ResetConversationKeepsLastExchange ==
  /\ pc = "idle"
  /\ memory # << >>
  /\ memory' = SubSeq(memory, Len(memory) - 1, Len(memory))
  /\ UNCHANGED <<pc, message, input, iterations, intermediate_steps,
                 response, ended, turns, error, error_msg>>
  /\ UNCHANGED <<backendVars, pureVars, asideVars>>

ResetConversation ==
  /\ pc = "idle"
  /\ memory # << >>
  /\ memory' = << >>
  /\ UNCHANGED <<pc, message, input, iterations, intermediate_steps,
                 response, ended, turns, error, error_msg>>
  /\ UNCHANGED <<backendVars, pureVars, asideVars>>

SwitchModelSucceedsWithFreshMemory ==
  /\ pc = "idle"
  /\ \E model_name \in SwitchTargets :
       /\ llm' = model_name
       /\ agent' = CreateReactAgent(model_name)
       /\ agent_executor' = ExecutorAfterSwitch(CreateReactAgent(model_name))
  /\ switch_result' = "True"
  /\ memory' = << >>
  /\ UNCHANGED <<parser_honoured, tools, pc, message, input,
                 iterations, intermediate_steps, response,
                 ended, turns, error, error_msg>>
  /\ UNCHANGED <<pureVars, asideVars>>

SwitchModelSucceedsReloadingTools ==
  /\ pc = "idle"
  /\ \E model_name \in SwitchTargets :
       /\ llm' = model_name
       /\ agent' = CreateReactAgent(model_name)
       /\ agent_executor' = ExecutorAfterSwitch(CreateReactAgent(model_name))
  /\ switch_result' = "True"
  /\ tools' = SubSeq(tools, 1, Len(tools) - 1)
  /\ UNCHANGED <<parser_honoured, memory, pc, message, input,
                 iterations, intermediate_steps, response,
                 ended, turns, error, error_msg>>
  /\ UNCHANGED <<pureVars, asideVars>>

SwitchModelSucceeds ==
  /\ pc = "idle"
  /\ \E model_name \in SwitchTargets :
       /\ llm' = model_name
       /\ agent' = CreateReactAgent(model_name)
       /\ agent_executor' = ExecutorAfterSwitch(CreateReactAgent(model_name))
  /\ switch_result' = "True"
  /\ UNCHANGED <<parser_honoured, tools, memory, pc, message, input,
                 iterations, intermediate_steps, response,
                 ended, turns, error, error_msg>>
  /\ UNCHANGED <<pureVars, asideVars>>

SwitchModelFails ==
  /\ pc = "idle"
  /\ switch_result' = "False"
  /\ UNCHANGED <<llm, agent, agent_executor, parser_honoured, tools, memory, pc,
                 message, input, iterations, intermediate_steps,
                 response, ended, turns, error, error_msg>>
  /\ UNCHANGED <<pureVars, asideVars>>

(***************************************************************************)
(* The environment of the agent: whether GROQ_API_KEY is set once          *)
(* __init__ has stored its argument, the backends whose client             *)
(* construction succeeds, and the backends that answer a call.             *)
(***************************************************************************)
AllModels == {PrimaryModel} \cup {FallbackModels[i] : i \in 1..Len(FallbackModels)}

Environments ==
  [key : BOOLEAN, constructible : SUBSET AllModels, answering : SUBSET AllModels]

FullEnv == [key |-> TRUE, constructible |-> AllModels, answering |-> AllModels]

Constructs(e, model) == e.key /\ model \in e.constructible

Answers(e, model) == model \in e.answering

(***************************************************************************)
(* __init__: the attributes of self in the order they are assigned.  The   *)
(* first, llm, comes from _initialize_llm, which constructs the primary    *)
(* backend without calling it and, when that raises, hands over to         *)
(* _initialize_fallback_llm; that one constructs and probes the fallbacks  *)
(* in their order and raises ValueError when none is left.                 *)
(***************************************************************************)
NoLlm == "none"

NoAgent == [llm |-> NoLlm]

NoExecutor == [agent |-> NoAgent, max_iterations |-> 0, output_parser |-> "none"]

ConstructionOrderLlmLast ==
  <<"tools", "memory", "prompt", "agent", "agent_executor", "llm">>

ConstructionOrder ==
  <<"llm", "tools", "memory", "prompt", "agent", "agent_executor">>

AllAttrs == {ConstructionOrder[i] : i \in 1..Len(ConstructionOrder)}

NextAttr == ConstructionOrder[Cardinality(attrs) + 1]

Attempt(model, ok) == [model |-> model, ok |-> ok]

AssignLlm(model) ==
  /\ llm' = model
  /\ attrs' = attrs \cup {"llm"}
  /\ init_pc' = IF attrs' = AllAttrs THEN "ready" ELSE "init"

constructionFrame ==
  <<parser_honoured, pc, message, input, iterations, intermediate_steps,
    response, ended, turns, switch_result, text, outcome, error, error_msg,
    env, concurrencyVars, toolVars, sessionVars>>

InitializeLlm ==
  /\ init_pc = "init"
  /\ attrs # AllAttrs
  /\ NextAttr = "llm"
  /\ IF Constructs(env, PrimaryModel)
     THEN /\ attempts' = <<Attempt(PrimaryModel, TRUE)>>
          /\ AssignLlm(PrimaryModel)
     ELSE /\ attempts' = <<Attempt(PrimaryModel, FALSE)>>
          /\ init_pc' = "fallback"
          /\ UNCHANGED <<llm, attrs>>
  /\ UNCHANGED <<agent, agent_executor, tools, memory, constructionFrame>>

TryFallbackWithoutProbe ==
  /\ init_pc = "fallback"
  /\ Len(attempts) <= Len(FallbackModels)
  /\ LET model_name == FallbackModels[Len(attempts)] IN
     IF Constructs(env, model_name)
     THEN /\ attempts' = Append(attempts, Attempt(model_name, TRUE))
          /\ AssignLlm(model_name)
     ELSE /\ attempts' = Append(attempts, Attempt(model_name, FALSE))
          /\ UNCHANGED <<llm, attrs, init_pc>>
  /\ UNCHANGED <<agent, agent_executor, tools, memory, constructionFrame>>

TryFallback ==
  /\ init_pc = "fallback"
  /\ Len(attempts) <= Len(FallbackModels)
  /\ LET model_name == FallbackModels[Len(attempts)] IN
     IF Constructs(env, model_name) /\ Answers(env, model_name)
     THEN /\ attempts' = Append(attempts, Attempt(model_name, TRUE))
          /\ AssignLlm(model_name)
     ELSE /\ attempts' = Append(attempts, Attempt(model_name, FALSE))
          /\ UNCHANGED <<llm, attrs, init_pc>>
  /\ UNCHANGED <<agent, agent_executor, tools, memory, constructionFrame>>

FallbacksExhausted ==
  /\ init_pc = "fallback"
  /\ Len(attempts) > Len(FallbackModels)
  /\ init_pc' = "failed"
  /\ UNCHANGED <<llm, agent, agent_executor, tools, memory, attrs, attempts,
                 constructionFrame>>

AssignAttribute ==
  /\ init_pc = "init"
  /\ attrs # AllAttrs
  /\ NextAttr # "llm"
  /\ agent' = IF NextAttr = "agent" THEN CreateReactAgent(llm) ELSE agent
  /\ agent_executor' = IF NextAttr = "agent_executor"
                       THEN ExecutorAtConstruction(agent) ELSE agent_executor
  /\ tools' = IF NextAttr = "tools" THEN ToolNames ELSE tools
  /\ memory' = IF NextAttr = "memory" THEN << >> ELSE memory
  /\ attrs' = attrs \cup {NextAttr}
  /\ init_pc' = IF attrs' = AllAttrs THEN "ready" ELSE "init"
  /\ UNCHANGED <<llm, attempts, constructionFrame>>

(***************************************************************************)
(* switch_model called by concurrent callers: its steps, one read or one   *)
(* write of an attribute of self each.  A caller is idle, or at "probe",   *)
(* "assign_llm", "create_agent", "assign_agent", "create_executor" or      *)
(* "assign_executor".                                                      *)
(***************************************************************************)
Callers == {"c1", "c2"}

IdleCaller ==
  [pc |-> "idle", model_name |-> NoLlm, new_llm |-> NoLlm, new_agent |-> NoAgent,
   new_executor |-> NoExecutor, result |-> "none", calls |-> 0,
   before |-> <<NoLlm, NoAgent, NoExecutor>>]

SwitchRequests == {"llama3-8b-8192", "gemma2-9b-it"}

switchFrame ==
  <<parser_honoured, tools, memory, pc, message, input, iterations, intermediate_steps,
    response, ended, turns, switch_result, text, outcome, error, error_msg,
    constructionVars, toolVars, sessionVars>>

SwitchCall(c) ==
  /\ callers[c].pc = "idle"
  /\ callers[c].calls < MaxSwitchCalls
  /\ \E model_name \in SwitchRequests :
       callers' = [callers EXCEPT ![c] =
         [IdleCaller EXCEPT !.pc = "probe", !.model_name = model_name,
                            !.calls = callers[c].calls + 1,
                            !.before = <<llm, agent, agent_executor>>]]
  /\ UNCHANGED <<llm, agent, agent_executor, observed, switchFrame>>

SwitchProbeCommitsFirst(c) ==
  /\ callers[c].pc = "probe"
  /\ llm' = callers[c].model_name
  /\ IF Constructs(env, callers[c].model_name) /\ Answers(env, callers[c].model_name)
     THEN callers' = [callers EXCEPT ![c].pc = "create_agent",
                                     ![c].new_llm = callers[c].model_name]
     ELSE callers' = [callers EXCEPT ![c].pc = "idle", ![c].result = "False"]
  /\ UNCHANGED <<agent, agent_executor, observed, switchFrame>>

SwitchProbe(c) ==
  /\ callers[c].pc = "probe"
  /\ IF Constructs(env, callers[c].model_name) /\ Answers(env, callers[c].model_name)
     THEN callers' = [callers EXCEPT ![c].pc = "assign_llm",
                                     ![c].new_llm = callers[c].model_name]
     ELSE callers' = [callers EXCEPT ![c].pc = "idle", ![c].result = "False"]
  /\ UNCHANGED <<llm, agent, agent_executor, observed, switchFrame>>

SwitchAssignLlm(c) ==
  /\ callers[c].pc = "assign_llm"
  /\ llm' = callers[c].new_llm
  /\ callers' = [callers EXCEPT ![c].pc = "create_agent"]
  /\ UNCHANGED <<agent, agent_executor, observed, switchFrame>>

SwitchCreateAgent(c) ==
  /\ callers[c].pc = "create_agent"
  /\ callers' = [callers EXCEPT ![c].pc = "assign_agent",
                                ![c].new_agent = CreateReactAgent(llm)]
  /\ UNCHANGED <<llm, agent, agent_executor, observed, switchFrame>>

SwitchAssignAgent(c) ==
  /\ callers[c].pc = "assign_agent"
  /\ agent' = callers[c].new_agent
  /\ callers' = [callers EXCEPT ![c].pc = "create_executor"]
  /\ UNCHANGED <<llm, agent_executor, observed, switchFrame>>

SwitchCreateExecutor(c) ==
  /\ callers[c].pc = "create_executor"
  /\ callers' = [callers EXCEPT ![c].pc = "assign_executor",
                                ![c].new_executor = ExecutorAfterSwitch(agent)]
  /\ UNCHANGED <<llm, agent, agent_executor, observed, switchFrame>>

SwitchAssignExecutor(c) ==
  /\ callers[c].pc = "assign_executor"
  /\ agent_executor' = callers[c].new_executor
  /\ callers' = [callers EXCEPT ![c].pc = "idle", ![c].result = "True"]
  /\ UNCHANGED <<llm, agent, observed, switchFrame>>

ProcessMessageReads ==
  /\ observed' = agent_executor
  /\ UNCHANGED <<llm, agent, agent_executor, callers, switchFrame>>

(***************************************************************************)
(* The input schema of every tool: the fields without a default.           *)
(***************************************************************************)
RequiredInputs(name) ==
  CASE name = "order_status" -> {"order_id"}
    [] name = "cancel_order" -> {"order_id"}
    [] name = "process_return" -> {"order_id"}
    [] name = "search_products" -> {"query"}
    [] name = "product_details" -> {"product_id"}
    [] name = "customer_info" -> {}
    [] name = "get_customer_orders" -> {"customer_id"}
    [] name = "search_orders_by_email" -> {"email"}
    [] name = "update_preferences" -> {"customer_id", "preferences"}
    [] name = "get_weather" -> {"city"}
    [] name = "product_recommendations" -> {}
    [] name = "ask_query" -> {}

(***************************************************************************)
(* get_conversation_history, called between turns.                         *)
(***************************************************************************)
GetConversationHistoryCall ==
  /\ pc = "idle"
  /\ history' = GetConversationHistory
  /\ UNCHANGED <<agentVars, pureVars, error, error_msg, constructionVars,
                 concurrencyVars, toolVars, sessions, ui, passed, actor,
                 cancellers>>

(***************************************************************************)
(* The sessions of the UI.  Every session has its own session id and its   *)
(* own login state in st.session_state; the contexts of all sessions are   *)
(* in the one CustomerContext of the process, under the session ids, and   *)
(* the tools of all sessions work on the one order database of the         *)
(* process.  A context is a dict, a function from its keys to its values.  *)
(***************************************************************************)
SessionIds == {"s1", "s2"}

LoginIds == {"CUST001"}

LoginEmails == {"jane.smith@email.com"}

EmptyContext == [k \in {} |-> ""]

GetContext(ss, session_id) ==
  IF session_id \in DOMAIN ss THEN ss[session_id] ELSE EmptyContext

DictUpdate(d, e) ==
  [k \in DOMAIN d \cup DOMAIN e |-> IF k \in DOMAIN e THEN e[k] ELSE d[k]]

UpdateContext(ss, session_id, context) ==
  [s \in DOMAIN ss \cup {session_id} |->
     IF s = session_id THEN DictUpdate(GetContext(ss, session_id), context)
     ELSE ss[s]]

SetCustomerId(ss, session_id, customer_id) ==
  UpdateContext(ss, session_id, [k \in {"customer_id"} |-> customer_id])

SetCustomerEmail(ss, session_id, email) ==
  UpdateContext(ss, session_id, [k \in {"customer_email"} |-> email])

LoggedOut == [customer_authenticated |-> FALSE, current_customer |-> "None"]

LoggedIn(customer) == [customer_authenticated |-> TRUE, current_customer |-> customer]

Acted(s, op) == [session |-> s, op |-> op]

sessionFrame ==
  <<agentVars, pureVars, error, error_msg, constructionVars, concurrencyVars,
    history, cancellers>>

LoginWithId(s) ==
  /\ ~ui[s].customer_authenticated
  /\ \E customer_id \in LoginIds :
       /\ sessions' = SetCustomerId(sessions, s, customer_id)
       /\ ui' = [ui EXCEPT ![s] = LoggedIn(customer_id)]
  /\ actor' = Acted(s, "login")
  /\ UNCHANGED <<passed, toolVars, sessionFrame>>

LoginWithEmail(s) ==
  /\ ~ui[s].customer_authenticated
  /\ \E email \in LoginEmails :
       /\ sessions' = SetCustomerEmail(sessions, s, email)
       /\ ui' = [ui EXCEPT ![s] = LoggedIn(email)]
  /\ actor' = Acted(s, "login")
  /\ UNCHANGED <<passed, toolVars, sessionFrame>>

Logout(s) ==
  /\ ui[s].customer_authenticated
  /\ ui' = [ui EXCEPT ![s] = LoggedOut]
  /\ actor' = Acted(s, "logout")
  /\ UNCHANGED <<sessions, passed, toolVars, sessionFrame>>

\* The chat input and the quick actions: the context of the session is
\* read and passed to process_message with the message.
SendMessage(s) ==
  /\ passed' = [passed EXCEPT ![s] = GetContext(sessions, s)]
  /\ actor' = Acted(s, "message")
  /\ UNCHANGED <<sessions, ui, toolVars, sessionFrame>>

\* A tool call of a turn of session s.
SessionToolIds == {<<"ORD002">>, <<"ORD003">>}

SessionTools == {"order_status", "cancel_order", "process_return"}

SessionCallsTool(s) ==
  /\ \E name \in SessionTools, arg \in SessionToolIds :
       /\ tool_call' = [name |-> name, arg |-> arg]
       /\ tool_result' = ToolRun(name, arg, orders)
       /\ orders' = IF name = "cancel_order"
                    THEN OrdersAfterCancel(orders, arg) ELSE orders
  /\ actor' = Acted(s, "tool")
  /\ UNCHANGED <<sessions, ui, passed, sessionFrame>>

(***************************************************************************)
(* cancel_order of the order database called by the tools of concurrent    *)
(* sessions: its steps, one read or one write of the orders each.  A       *)
(* caller is idle, or at "get", "check", "set_status" or "set_flag".       *)
(***************************************************************************)
Cancellers == {"t1", "t2"}

CancelIds == {"ORD001", "ORD002", "ORD999"}

IdleCanceller ==
  [pc |-> "idle", order_id |-> "none", result |-> << >>, succeeded |-> {},
   calls |-> 0]

cancelFrame ==
  <<agentVars, pureVars, error, error_msg, constructionVars, concurrencyVars,
    tool_call, tool_result, history, sessions, ui, passed, actor>>

CancelCall(c) ==
  /\ cancellers[c].pc = "idle"
  /\ cancellers[c].calls < MaxCancelCalls
  /\ \E order_id \in CancelIds :
       cancellers' = [cancellers EXCEPT ![c].pc = "get", ![c].order_id = order_id,
                                        ![c].result = << >>,
                                        ![c].calls = cancellers[c].calls + 1]
  /\ UNCHANGED <<orders, cancelFrame>>

CancelGet(c) ==
  /\ cancellers[c].pc = "get"
  /\ IF cancellers[c].order_id \in DOMAIN orders
     THEN cancellers' = [cancellers EXCEPT ![c].pc = "check"]
     ELSE cancellers' = [cancellers EXCEPT ![c].pc = "idle",
                                           ![c].result = <<"Order not found">>]
  /\ UNCHANGED <<orders, cancelFrame>>

CancelCheck(c) ==
  /\ cancellers[c].pc = "check"
  /\ IF orders[cancellers[c].order_id].can_cancel
     THEN cancellers' = [cancellers EXCEPT ![c].pc = "set_status"]
     ELSE cancellers' = [cancellers EXCEPT ![c].pc = "idle",
            ![c].result = <<"Order cannot be cancelled (already shipped/delivered)">>]
  /\ UNCHANGED <<orders, cancelFrame>>

CancelSetStatus(c) ==
  /\ cancellers[c].pc = "set_status"
  /\ orders' = [orders EXCEPT ![cancellers[c].order_id].status = "cancelled"]
  /\ cancellers' = [cancellers EXCEPT ![c].pc = "set_flag"]
  /\ UNCHANGED cancelFrame

CancelSetFlag(c) ==
  /\ cancellers[c].pc = "set_flag"
  /\ orders' = [orders EXCEPT ![cancellers[c].order_id].can_cancel = FALSE]
  /\ cancellers' = [cancellers EXCEPT
       ![c].pc = "idle",
       ![c].result = <<"Order cancelled successfully">>,
       ![c].succeeded = cancellers[c].succeeded \cup {cancellers[c].order_id}]
  /\ UNCHANGED cancelFrame

SessionInit ==
  /\ history = << >>
  /\ sessions = [s \in {} |-> EmptyContext]
  /\ ui = [s \in SessionIds |-> LoggedOut]
  /\ passed = [s \in SessionIds |-> EmptyContext]
  /\ actor = Acted("none", "none")
  /\ cancellers = [c \in Cancellers |-> IdleCanceller]

(***************************************************************************)
(* The agent after construction, and its behaviours.                       *)
(***************************************************************************)
NoOutcome == [type |-> "none"]

AsideInit ==
  /\ env = FullEnv
  /\ init_pc = "ready"
  /\ attrs = AllAttrs
  /\ attempts = <<Attempt(PrimaryModel, TRUE)>>
  /\ callers = [c \in Callers |-> IdleCaller]
  /\ observed = NoExecutor
  /\ tool_call = NoCall
  /\ tool_result = NoResult
  /\ orders = OrdersAtImport
  /\ SessionInit

AgentInit ==
  /\ llm = PrimaryModel
  /\ tools = ToolNames
  /\ agent = CreateReactAgent(PrimaryModel)
  /\ agent_executor = ExecutorAtConstruction(CreateReactAgent(PrimaryModel))
  /\ memory = << >>
  /\ pc = "idle"
  /\ message = << >>
  /\ input = << >>
  /\ iterations = 0
  /\ intermediate_steps = << >>
  /\ response = << >>
  /\ ended = "none"
  /\ turns = 0
  /\ switch_result = "none"

Init ==
  /\ AgentInit
  /\ AsideInit
  /\ parser_honoured \in BOOLEAN
  /\ text = << >>
  /\ outcome = NoOutcome
  /\ error = << >>
  /\ error_msg = << >>

LoopStep ==
  \/ BackendRaises(BackendErrors)
  \/ BackendFinishes(BackendTexts)
  \/ BackendActs(BackendTexts)
  \/ ToolFails(BackendTexts)
  \/ ParsingErrorHandled(BackendTexts)
  \/ CeilingReached

Next ==
  \/ ProcessMessage(Messages, Contexts, MaxTurns)
  \/ BackendRaises(BackendErrors)
  \/ BackendFinishes(BackendTexts)
  \/ BackendActs(BackendTexts)
  \/ ToolFails(BackendTexts)
  \/ ParsingErrorHandled(BackendTexts)
  \/ CeilingReached
  \/ ResetConversation
  \/ SwitchModelSucceeds
  \/ SwitchModelFails

Spec == Init /\ [][Next]_vars

(***************************************************************************)
(* The same agent with the loop scheduled fairly: the loop is synchronous, *)
(* and every backend call returns or raises within its request timeout.    *)
(***************************************************************************)
FairSpec == Spec /\ WF_vars(LoopStep)

(***************************************************************************)
(* Long conversations: one message, no context, a backend that answers or  *)
(* fails at once, and enough turns to fill the memory window.              *)
(***************************************************************************)
NextLong ==
  \/ ProcessMessage(Messages, {"None"}, MaxTurnsLong)
  \/ BackendRaises({<<"connection reset">>})
  \/ BackendFinishes({FinalText})

SpecLong == Init /\ [][NextLong]_vars

(***************************************************************************)
(* The parser on every text of at most MaxLen tokens.                      *)
(***************************************************************************)
InitParse ==
  /\ AgentInit
  /\ AsideInit
  /\ parser_honoured = TRUE
  /\ text \in SeqsUpTo(Tokens, MaxLen)
  /\ outcome = NoOutcome
  /\ error = << >>
  /\ error_msg = << >>

ParseText ==
  /\ outcome = NoOutcome
  /\ outcome' = SafeParse(text)
  /\ UNCHANGED <<agentVars, text, error, error_msg, asideVars>>

SpecParse == InitParse /\ [][ParseText]_vars

(***************************************************************************)
(* The error classification on every error text of at most MaxErrLen       *)
(* phrases.                                                                *)
(***************************************************************************)
InitClassify ==
  /\ AgentInit
  /\ AsideInit
  /\ parser_honoured = TRUE
  /\ text = << >>
  /\ outcome = NoOutcome
  /\ error \in SeqsUpTo(ErrorPhrases, MaxErrLen)
  /\ error_msg = << >>

ClassifyError ==
  /\ error_msg = << >>
  /\ error_msg' = Classify(error)
  /\ UNCHANGED <<agentVars, text, outcome, error, asideVars>>

SpecClassify == InitClassify /\ [][ClassifyError]_vars

(***************************************************************************)
(* The construction of an agent in every environment.                      *)
(***************************************************************************)
InitConstruction ==
  /\ env \in Environments
  /\ init_pc = "init"
  /\ attrs = {}
  /\ attempts = << >>
  /\ llm = NoLlm
  /\ agent = NoAgent
  /\ agent_executor = NoExecutor
  /\ parser_honoured \in BOOLEAN
  /\ tools = << >>
  /\ memory = << >>
  /\ pc = "idle"
  /\ message = << >>
  /\ input = << >>
  /\ iterations = 0
  /\ intermediate_steps = << >>
  /\ response = << >>
  /\ ended = "none"
  /\ turns = 0
  /\ switch_result = "none"
  /\ text = << >>
  /\ outcome = NoOutcome
  /\ error = << >>
  /\ error_msg = << >>
  /\ callers = [c \in Callers |-> IdleCaller]
  /\ observed = NoExecutor
  /\ tool_call = NoCall
  /\ tool_result = NoResult
  /\ orders = OrdersAtImport
  /\ SessionInit

NextConstruction ==
  \/ InitializeLlm
  \/ TryFallback
  \/ FallbacksExhausted
  \/ AssignAttribute

SpecConstruction == InitConstruction /\ [][NextConstruction]_vars

(***************************************************************************)
(* Concurrent switch_model calls on a constructed agent, and a             *)
(* process_message that reads the executor meanwhile.  The backends        *)
(* construct; which of the requested ones answer the probe varies.         *)
(***************************************************************************)
SwitchEnvironments ==
  {e \in Environments :
     /\ e.key
     /\ e.constructible = AllModels
     /\ AllModels \ SwitchRequests \subseteq e.answering}

InitSwitch ==
  /\ AgentInit
  /\ parser_honoured \in BOOLEAN
  /\ text = << >>
  /\ outcome = NoOutcome
  /\ error = << >>
  /\ error_msg = << >>
  /\ env \in SwitchEnvironments
  /\ init_pc = "ready"
  /\ attrs = AllAttrs
  /\ attempts = <<Attempt(PrimaryModel, TRUE)>>
  /\ callers = [c \in Callers |-> IdleCaller]
  /\ observed = NoExecutor
  /\ tool_call = NoCall
  /\ tool_result = NoResult
  /\ orders = OrdersAtImport
  /\ SessionInit

NextSwitch ==
  \/ \E c \in Callers :
       \/ SwitchCall(c)
       \/ SwitchProbe(c)
       \/ SwitchAssignLlm(c)
       \/ SwitchCreateAgent(c)
       \/ SwitchAssignAgent(c)
       \/ SwitchCreateExecutor(c)
       \/ SwitchAssignExecutor(c)
  \/ ProcessMessageReads

SpecSwitch == InitSwitch /\ [][NextSwitch]_vars

(***************************************************************************)
(* Turns in which the backend asks for tools, registered and not, and      *)
(* then answers.                                                           *)
(***************************************************************************)
NextDispatch ==
  \/ ProcessMessage(Messages, {"None"}, MaxTurns)
  \/ BackendActs(DispatchTexts)
  \/ ToolFails(DispatchTexts)
  \/ BackendFinishes({FinalText})
  \/ CeilingReached

SpecDispatch == Init /\ [][NextDispatch]_vars

(***************************************************************************)
(* The tools called one after the other on the module's databases.         *)
(***************************************************************************)
SpecTools == Init /\ [][RunTool]_vars

(***************************************************************************)
(* A conversation that is displayed and cleared between its turns.         *)
(***************************************************************************)
NextHistory ==
  \/ ProcessMessage(Messages, {"None"}, MaxTurns)
  \/ BackendFinishes({FinalText})
  \/ BackendRaises(BackendErrors)
  \/ ResetConversation
  \/ GetConversationHistoryCall

SpecHistory == Init /\ [][NextHistory]_vars

(***************************************************************************)
(* Two sessions of the UI in one process: logins, logouts, messages and    *)
(* tool calls in any order.                                                *)
(***************************************************************************)
NextSessions ==
  \E s \in SessionIds :
    \/ LoginWithId(s)
    \/ LoginWithEmail(s)
    \/ Logout(s)
    \/ SendMessage(s)
    \/ SessionCallsTool(s)

SpecSessions == Init /\ [][NextSessions]_vars

(***************************************************************************)
(* Concurrent cancel_order calls on the one order database.                *)
(***************************************************************************)
NextCancel ==
  \E c \in Cancellers :
    \/ CancelCall(c)
    \/ CancelGet(c)
    \/ CancelCheck(c)
    \/ CancelSetStatus(c)
    \/ CancelSetFlag(c)

SpecCancel == Init /\ [][NextCancel]_vars

(***************************************************************************)
(* Properties.                                                             *)
(***************************************************************************)
FirstNonSpace(s) == CHOOSE i \in 1..Len(s) :
  ~IsSpace(s[i]) /\ \A j \in 1..(i - 1) : IsSpace(s[j])

LastNonSpace(s) == CHOOSE i \in 1..Len(s) :
  ~IsSpace(s[i]) /\ \A j \in (i + 1)..Len(s) : IsSpace(s[j])

\* s without its leading and trailing whitespace
Trimmed(s) ==
  IF \A i \in 1..Len(s) : IsSpace(s[i]) THEN << >>
  ELSE LET a == FirstNonSpace(s)
           b == LastNonSpace(s)
       IN  [i \in 1..(b - a + 1) |->
              IF i = b - a + 1 /\ s[b] = ActionMarker THEN "Action:"
              ELSE IF i = b - a + 1 /\ s[b] = ActionInputMarker THEN "Action Input:"
              ELSE s[a + i - 1]]

HasMarker(s) == \E i \in 1..Len(s) : s[i] = FinalAnswerMarker

\* the text after the last final-answer marker of s
AfterLastMarker(s) ==
  LET i == CHOOSE k \in 1..Len(s) :
             s[k] = FinalAnswerMarker
             /\ \A j \in (k + 1)..Len(s) : s[j] # FinalAnswerMarker
  IN  SubSeq(s, i + 1, Len(s))

NoNewline(s, a, b) == \A m \in a..b : s[m] # NL

\* at i an "Action: " line starts whose next line starts with "Action Input: "
\* at j + 1 and ends before e + 1
IsActionPair(s, i, j, e) ==
  /\ s[i] = ActionMarker
  /\ i < j /\ j < Len(s) /\ j < e /\ e <= Len(s)
  /\ s[j] = NL
  /\ NoNewline(s, i + 1, j - 1)
  /\ s[j + 1] = ActionInputMarker
  /\ NoNewline(s, j + 2, e)
  /\ (e = Len(s) \/ s[e + 1] = NL)

HasActionPair(s) ==
  \E i \in 1..Len(s), j \in 1..Len(s), e \in 1..Len(s) : IsActionPair(s, i, j, e)

Parsed == outcome # NoOutcome

TurnEnds == pc = "loop" /\ pc' = "idle"

\* C1: every process_message call changes the memory exactly once, when the
\* loop has terminated, and appends one user turn and one assistant turn,
\* however the turn ended (final answer, ceiling, failure).
C1_OneExchangePerTurn ==
  [][pc = "loop" =>
       IF pc' = "idle"
       THEN memory' = SaveContext(memory, message, response')
       ELSE memory' = memory]_vars

\* C2: the conversation history never holds more than 2 * k entries (k = 10):
\* the oldest exchange is evicted when an exchange is appended to a full
\* window.
C2_WindowBound ==
  /\ Len(GetConversationHistory) <= 2 * WindowK
  /\ Len(memory) <= 2 * WindowK

\* C3: every user turn stored in memory is the caller's message verbatim,
\* without the context annotation of the prompt input.
C3_UserTurnVerbatim ==
  \A i \in 1..Len(memory) :
    memory[i].type = "human" => memory[i].content \in Messages

\* every turn ends, when the loop is scheduled fairly
TurnsTerminate == (pc = "loop") ~> (pc = "idle")

\* C4: a turn never runs more iterations than the ceiling of its executor,
\* which is 5 until switch_model is called; while a turn runs the loop can
\* take a step, and every step of it ends the turn or adds one iteration, so
\* the turn ends after at most ceiling + 1 steps; a turn that has used up
\* the ceiling ends at once with the ceiling message, and no turn ends that
\* way earlier.
C4_CeilingTerminates ==
  /\ [](/\ iterations <= agent_executor.max_iterations
        /\ switch_result = "none" =>
             agent_executor.max_iterations = CeilingAtConstruction
        /\ ended = "ceiling" => response = CeilingMsg
        /\ pc = "loop" => ENABLED LoopStep)
  /\ [][/\ pc = "loop" => (pc' = "idle" \/ iterations' = iterations + 1)
        /\ (pc = "loop" /\ iterations = agent_executor.max_iterations) =>
             (pc' = "idle" /\ ended' = "ceiling" /\ response' = CeilingMsg)
        /\ (TurnEnds /\ ended' = "ceiling") =>
             iterations = agent_executor.max_iterations]_vars

C4_Witness ==
  /\ pc = "idle"
  /\ ended = "ceiling"
  /\ response = CeilingMsg
  /\ switch_result = "none"
  /\ memory # << >>
  /\ memory[Len(memory)] = AIMessage(CeilingMsg)

\* C5: no error propagates out of process_message: every turn ends by
\* returning a string, and a turn that failed returns the classified
\* message of its error.
C5_AlwaysReturns ==
  /\ ended \in {"none", "final", "ceiling", "error"}
  /\ ended = "error" => (response = error_msg /\ response # << >>)

C5_Witness ==
  /\ pc = "idle"
  /\ ended = "error"
  /\ error = ToolError(<<"update_preferences">>)
  /\ response = GenericMsg(error)

\* C6: every string process_message returns is non-empty.
C6_NonEmptyOutput ==
  (pc = "idle" /\ ended # "none") => response # << >>

\* C7: for a text with a final-answer marker, parse returns Finish with the
\* trimmed text after the last marker, whatever precedes it.
C7_FinalAnswerLast ==
  (Parsed /\ HasMarker(text)) =>
    outcome = AgentFinish(Trimmed(AfterLastMarker(text)), text)

C7_Witness ==
  /\ text = <<FinalAnswerMarker, "a", FinalAnswerMarker, SP, "b">>
  /\ outcome = AgentFinish(<<"b">>, text)

\* C8: for a text without final-answer marker that has an "Action: " line
\* followed at once by an "Action Input: " line, parse returns Action with
\* the trimmed captures of such a pair of lines.
C8_ActionPair ==
  (Parsed /\ ~HasMarker(text) /\ HasActionPair(text)) =>
    /\ outcome.type = "Action"
    /\ \E i \in 1..Len(text), j \in 1..Len(text), e \in 1..Len(text) :
         /\ IsActionPair(text, i, j, e)
         /\ outcome.tool = Trimmed(SubSeq(text, i + 1, j - 1))
         /\ outcome.tool_input = Trimmed(SubSeq(text, j + 2, e))

C8_Witness ==
  /\ text = <<ActionMarker, "a", SP, NL, ActionInputMarker>>
  /\ outcome = AgentAction(<<"a">>, << >>, text)

\* C9: parse returns an Action or a Finish for every text, and for a text
\* with neither a final-answer marker nor an action pair the Finish wraps
\* the trimmed text.
C9_ParseTotal ==
  Parsed =>
    /\ outcome.type \in {"Action", "Finish"}
    /\ (~HasMarker(text) /\ ~HasActionPair(text)) =>
         outcome = AgentFinish(Trimmed(text), text)

C9_Witness ==
  /\ text = <<SP, ActionMarker, "a", NL, "b">>
  /\ outcome = AgentFinish(<<ActionMarker, "a", NL, "b">>, text)

Mentions(e, phrases) == \E i \in 1..Len(e) : e[i] \in phrases

\* C10: the classifier's first matching rule wins, in the order rate limit,
\* authentication or api key, timeout, generic apology, whatever the case of
\* the letters.
C10_FirstMatchWins ==
  error_msg # << >> =>
    error_msg =
      IF Mentions(error, {"rate limit", "Rate Limit"}) THEN HighDemandMsg
      ELSE IF Mentions(error, {"Authentication", "api key", "API Key"})
           THEN AuthenticationMsg
      ELSE IF Mentions(error, {"timeout", "Timeout"}) THEN TimedOutMsg
      ELSE GenericMsg(error)

C10_Witness ==
  /\ error = <<"Timeout", "Rate Limit">>
  /\ error_msg = HighDemandMsg

\* C11: a turn that fails appends exactly one exchange to the memory, the
\* caller's message and the classified message, and returns that classified
\* message: the last assistant entry of the conversation history is the
\* returned string and the user entry before it is the message.
C11_ErrorExchangeSaved ==
  [][(TurnEnds /\ ended' = "error") =>
       LET h == GetConversationHistory' IN
       /\ response' = Classify(error')
       /\ Len(h) = Len(memory) + 2
       /\ SubSeq(memory', 1, Len(memory)) = memory
       /\ h[Len(h)] = [role |-> "assistant", content |-> response']
       /\ h[Len(h) - 1] = [role |-> "user", content |-> message]]_vars

C11_Witness ==
  /\ pc = "idle"
  /\ ended = "error"
  /\ response = HighDemandMsg
  /\ Len(memory) = 2
  /\ memory[1] \in {HumanMessage(m) : m \in Messages}
  /\ memory[2] = AIMessage(HighDemandMsg)

\* e occurs in s as a run of consecutive tokens
IsInfix(e, s) ==
  \E i \in 0..(Len(s) - Len(e)) : SubSeq(s, i + 1, i + Len(e)) = e

\* C12: the text of the raised error is no part of what the user sees:
\* neither the string a failing turn returns nor the assistant turn it
\* stores contains it.
C12_ErrorDetailHidden ==
  (pc = "idle" /\ ended = "error" /\ memory # << >>) =>
    /\ ~IsInfix(error, response)
    /\ ~IsInfix(error, memory[Len(memory)].content)

\* C13: a failing turn leaves the session usable: it ends in the idle state
\* with the backend unchanged and the memory extended, the next call can
\* start, its loop can reach a final answer, and a turn that ends with a
\* final answer returns the answer of the backend's text.
C13_UsableAfterFailure ==
  /\ [](/\ (pc = "idle" /\ turns < MaxTurns) =>
              ENABLED ProcessMessage(Messages, Contexts, MaxTurns)
        /\ (pc = "loop" /\ ended = "error" /\ iterations = 0) =>
              ENABLED BackendFinishes(BackendTexts))
  /\ [][/\ (TurnEnds /\ ended' = "error") =>
              /\ pc' = "idle"
              /\ UNCHANGED <<llm, agent, agent_executor>>
              /\ Len(memory') > Len(memory)
              /\ SubSeq(memory', 1, Len(memory)) = memory
        /\ (TurnEnds /\ ended = "error" /\ ended' = "final") =>
              /\ \E t \in BackendTexts :
                   LET parsed == Parse(EffectiveParser(agent_executor), t) IN
                   parsed.type = "Finish" /\ response' = parsed.output
              /\ SubSeq(memory', 1, Len(memory)) = memory
              /\ memory'[Len(memory')] = AIMessage(response')]_vars

C13_Witness ==
  /\ pc = "idle"
  /\ turns = 2
  /\ ended = "final"
  /\ response = <<"Hello!">>
  /\ Len(memory) = 6
  /\ memory[2] = AIMessage(GenericMsg(<<"connection reset">>))
  /\ memory[6] = AIMessage(<<"Hello!">>)

\* C18: process_message never changes the active backend: llm, agent and
\* agent_executor are the same before and after every step of a turn, also
\* of a failing one, whose error goes to the classifier; the backend
\* changes only by a switch_model call that returns True.
C18_NoSwitchInTurn ==
  [][/\ (pc = "loop" \/ pc' = "loop") => UNCHANGED <<llm, agent, agent_executor>>
     /\ (TurnEnds /\ ended' = "error") => response' = Classify(error')
     /\ (<<llm, agent, agent_executor>>' # <<llm, agent, agent_executor>>) =>
          (pc = "idle" /\ pc' = "idle" /\ switch_result' = "True")]_vars

C18_Witness ==
  /\ pc = "idle"
  /\ ended = "error"
  /\ error = <<"connection reset">>
  /\ response = GenericMsg(error)
  /\ llm = PrimaryModel
  /\ agent_executor = ExecutorAtConstruction(CreateReactAgent(PrimaryModel))

\* the fallback identifiers in their listed order
ListedFallbacks == <<"llama3-8b-8192", "mixtral-8x7b-32768", "gemma2-9b-it">>

\* the backend can be constructed and answers a probe
Works(model) ==
  env.key /\ model \in env.constructible /\ model \in env.answering

PrimaryInitializes == env.key /\ "llama3-70b-8192" \in env.constructible

\* C16: the primary backend is tried first and is not probed; fallbacks are
\* tried only when the primary's initialization failed, in their listed
\* order, each one only after the one before it failed, and each succeeds
\* exactly when it constructs and answers its probe; the backend selected is
\* the last one tried, so the first fallback that works, and nothing is
\* tried after it.
C16_FallbackOrder ==
  /\ Len(attempts) <= 1 + Len(ListedFallbacks)
  /\ attempts # << >> =>
       /\ attempts[1].model = "llama3-70b-8192"
       /\ attempts[1].ok = PrimaryInitializes
  /\ Len(attempts) >= 2 => ~PrimaryInitializes
  /\ \A i \in 2..Len(attempts) :
       /\ attempts[i].model = ListedFallbacks[i - 1]
       /\ attempts[i].ok = Works(attempts[i].model)
       /\ ~attempts[i - 1].ok
  /\ IF "llm" \in attrs
     THEN /\ attempts # << >>
          /\ attempts[Len(attempts)].ok
          /\ llm = attempts[Len(attempts)].model
     ELSE llm = NoLlm
  /\ (init_pc = "ready" /\ ~PrimaryInitializes) =>
       \E i \in 1..Len(ListedFallbacks) :
         /\ llm = ListedFallbacks[i]
         /\ Works(ListedFallbacks[i])
         /\ \A j \in 1..(i - 1) : ~Works(ListedFallbacks[j])
         /\ Len(attempts) = i + 1

C16_Witness ==
  /\ init_pc = "ready"
  /\ llm = "mixtral-8x7b-32768"
  /\ Len(attempts) = 3
  /\ "llama3-8b-8192" \in env.constructible
  /\ Works("gemma2-9b-it")

NoBackendWorks ==
  /\ ~PrimaryInitializes
  /\ \A i \in 1..Len(ListedFallbacks) : ~Works(ListedFallbacks[i])

\* C17: when neither the primary nor any fallback initializes, construction
\* ends in failure after all four were tried, no attribute of the agent
\* (llm, tools, memory, prompt, agent, executor) was ever assigned, no agent
\* becomes ready, and nothing happens after the failure.
C17_FatalFailure ==
  /\ [](/\ init_pc = "failed" =>
              /\ NoBackendWorks
              /\ Len(attempts) = 1 + Len(ListedFallbacks)
              /\ \A i \in 1..Len(attempts) : ~attempts[i].ok
              /\ attrs = {}
              /\ llm = NoLlm /\ agent = NoAgent /\ agent_executor = NoExecutor
        /\ NoBackendWorks =>
              /\ init_pc # "ready"
              /\ attrs = {}
              /\ init_pc # "failed" => ENABLED NextConstruction)
  /\ [][init_pc # "failed"]_vars

C17_Witness ==
  /\ init_pc = "failed"
  /\ env.key
  /\ "gemma2-9b-it" \in env.constructible
  /\ Len(attempts) = 4
  /\ attrs = {}

CommitStages ==
  {"assign_llm", "create_agent", "assign_agent", "create_executor", "assign_executor"}

Backend == <<llm, agent, agent_executor>>

\* C14: switch_model commits only after the requested backend constructed
\* and answered the probe; it returns False only from the probe, in a step
\* that assigns none of llm, agent and agent_executor, and when no other
\* caller was active the three are exactly those in place before the call;
\* the three change only in the commit of a caller whose probe succeeded,
\* so the active backend is the one of construction or one that answered
\* its probe.
C14_FailedSwitchKeepsBackend ==
  /\ [](/\ \A c \in Callers :
              /\ callers[c].pc \in CommitStages =>
                   /\ Constructs(env, callers[c].model_name)
                   /\ Answers(env, callers[c].model_name)
                   /\ callers[c].new_llm = callers[c].model_name
              /\ (/\ callers[c].pc = "idle"
                  /\ callers[c].result = "False"
                  /\ \A d \in Callers \ {c} : callers[d].calls = 0) =>
                   Backend = callers[c].before
        /\ llm = PrimaryModel \/ Answers(env, llm))
  /\ [][/\ \A c \in Callers :
              (callers[c].pc # "idle" /\ callers'[c].pc = "idle"
                 /\ callers'[c].result = "False") =>
                /\ callers[c].pc = "probe"
                /\ ~Answers(env, callers[c].model_name)
                /\ Backend' = Backend
        /\ Backend' # Backend =>
              \E c \in Callers :
                /\ callers[c].pc \in {"assign_llm", "assign_agent", "assign_executor"}
                /\ callers'[c] # callers[c]]_vars

C14_Witness ==
  /\ callers["c1"].pc = "idle"
  /\ callers["c1"].result = "False"
  /\ callers["c1"].model_name = "gemma2-9b-it"
  /\ callers["c2"].calls = 0
  /\ llm = PrimaryModel
  /\ agent = CreateReactAgent(PrimaryModel)
  /\ agent_executor = ExecutorAtConstruction(CreateReactAgent(PrimaryModel))

\* llm, agent and executor are built from the same backend
Coherent(l, a, x) == a.llm = l /\ x.agent = a

AllReturned == \A c \in Callers : callers[c].pc = "idle" /\ callers[c].calls > 0

\* C15: switching is atomic for observers: the executor that a concurrent
\* process_message reads is the old one or one fully built from a requested
\* backend, and when all concurrent switch_model calls have returned, llm,
\* agent and agent_executor are built from the same backend, the one
\* requested by a call that returned True if there is such a call.
C15_AtomicSwitch ==
  /\ observed # NoExecutor =>
       \/ observed = ExecutorAtConstruction(CreateReactAgent(PrimaryModel))
       \/ \E m \in SwitchRequests : observed = ExecutorAfterSwitch(CreateReactAgent(m))
  /\ AllReturned =>
       /\ Coherent(llm, agent, agent_executor)
       /\ (\E c \in Callers : callers[c].result = "True") =>
            \E c \in Callers :
              callers[c].result = "True" /\ llm = callers[c].model_name

\* C20: every call of a registered tool returns a text, whatever the input;
\* no tool raises.
C20_ToolsNeverRaise ==
  tool_call # NoCall =>
    /\ tool_result.kind = "returned"
    /\ tool_result.text # << >>

UnknownTools == {<<"nonexistent_tool">>, <<"Order_Status">>}

\* the scratchpad steps for a tool name that is not registered
UnknownToolSteps ==
  {i \in 1..Len(intermediate_steps) : intermediate_steps[i].tool \in UnknownTools}

MentionsNotFound(s) ==
  \E i \in 1..Len(s) :
    s[i] \in {"not found", " not found.", " not found in our system.", "Order not found"}

C28_HistoryAlternates ==
  LET h == GetConversationHistory IN
  /\ Len(h) % 2 = 0
  /\ \A i \in 1..Len(h) :
       h[i].role = IF i % 2 = 1 THEN "user" ELSE "assistant"

C28_Witness ==
  /\ pc = "idle"
  /\ turns = 2
  /\ ended = "error"
  /\ Len(GetConversationHistory) = 6
  /\ GetConversationHistory[5].role = "user"
  /\ GetConversationHistory[6] = [role |-> "assistant", content |-> response]

\* a step of switch_model: it returns, and on success replaces the backend
SwitchModelReturns ==
  \/ switch_result' # switch_result
  \/ <<llm, agent, agent_executor>>' # <<llm, agent, agent_executor>>

\* C29: switch_model, successful or not, leaves the memory as it is, so the
\* conversation history is the same list before and after; and a turn after
\* a successful switch replays that memory in its prompt and, when it ends,
\* appends its exchange to it.
C29_SwitchKeepsMemory ==
  /\ [][SwitchModelReturns =>
          /\ memory' = memory
          /\ GetConversationHistory' = GetConversationHistory
          /\ PromptHistory' = PromptHistory]_vars
  /\ [][(switch_result = "True" /\ TurnEnds) =>
          /\ Len(memory') > Len(memory)
          /\ SubSeq(memory', 1, Len(memory)) = memory]_vars

C29_Witness ==
  /\ switch_result = "True"
  /\ llm \in SwitchTargets
  /\ pc = "idle"
  /\ turns = 2
  /\ ended = "final"
  /\ Len(memory) = 6
  /\ memory[2] = AIMessage(HighDemandMsg)

\* C24: the loop configuration of the executor is the one of construction in
\* every state, also after a successful switch_model: the iteration ceiling
\* is 5 and the output parser in use is the one the executor had at
\* construction.
C24_LoopConfigurationKept ==
  /\ agent_executor.max_iterations = CeilingAtConstruction
  /\ EffectiveParser(agent_executor) = EffectiveParser(ExecutorAtConstruction(agent))

\* the names of a tool list are pairwise different
UniqueNames(ts) == \A i, j \in 1..Len(ts) : ts[i] = ts[j] => i = j

\* C22: after construction the tool list of the agent never changes, whatever
\* process_message, switch_model and reset_conversation calls are made: it
\* has the names of get_tools in their order, the names are pairwise
\* different, and ask_query is among them and has no required input.
C22_ToolCatalogFixed ==
  /\ [](/\ tools = ToolNames
        /\ UniqueNames(tools)
        /\ \E i \in 1..Len(tools) : tools[i] = "ask_query"
        /\ RequiredInputs("ask_query") = {})
  /\ [][tools' = tools]_vars

C22_Witness ==
  /\ switch_result = "True"
  /\ pc = "idle"
  /\ turns = 2
  /\ memory = << >>
  /\ ended = "final"
  /\ tools[Len(tools)] = "ask_query"

\* a step of reset_conversation: the memory changes between two turns
ResetReturns == pc = "idle" /\ pc' = "idle" /\ memory' # memory

\* C23: right after reset_conversation the conversation history is empty,
\* and a turn that starts then has no earlier turns in its prompt.
\* get_conversation_history returns the stored messages in their order, as
\* user and assistant entries, and leaves the memory as it is.
C23_ResetClearsMemory ==
  /\ [][ResetReturns =>
          /\ GetConversationHistory' = << >>
          /\ PromptHistory' = << >>
          /\ ChatHistory' = << >>]_vars
  /\ [][(pc = "idle" /\ pc' = "loop" /\ GetConversationHistory = << >>) =>
          /\ PromptHistory' = << >>
          /\ ChatHistory' = << >>]_vars
  /\ [][history' # history =>
          /\ memory' = memory
          /\ Len(history') = Len(memory)
          /\ \A i \in 1..Len(memory) :
               /\ history'[i].content = memory[i].content
               /\ history'[i].role =
                    IF memory[i].type = "human" THEN "user" ELSE "assistant"]_vars

C23_Witness ==
  /\ pc = "loop"
  /\ turns = 2
  /\ memory = << >>
  /\ Len(history) = 4
  /\ history[1].role = "user"
  /\ history[2].role = "assistant"

\* the texts of the order tools
CancelSucceeded == Returned(<<"RESULT: ", "Order cancelled successfully">>)

ReturnSucceeded ==
  Returned(<<"RESULT: ", "Return request processed. Return ID: RET", "id",
             ". Please ship items back within 30 days.">>)

\* a tool has just been called: the call or its result is new
Calls(name) ==
  /\ tool_call'.name = name
  /\ <<tool_call, tool_result, orders>>' # <<tool_call, tool_result, orders>>

\* C27: a cancel_order call that fails, for an unknown order or one that
\* cannot be cancelled, and every process_return call leave all orders as
\* they are; process_return succeeds exactly when the order exists and its
\* status is 'delivered', so never for a cancelled or processing order.
C27_FailedCancelAndReturnKeepOrders ==
  /\ [][(Calls("cancel_order") /\ tool_result' # CancelSucceeded) =>
          orders' = orders]_vars
  /\ [][Calls("process_return") =>
          /\ orders' = orders
          /\ tool_result'.kind = "returned"
          /\ tool_result' = ReturnSucceeded
               <=> /\ Known(tool_call'.arg, DOMAIN orders)
                   /\ orders[tool_call'.arg[1]].status = "delivered"]_vars

C27_Witness ==
  /\ orders["ORD002"].status = "cancelled"
  /\ tool_call = [name |-> "process_return", arg |-> <<"ORD002">>]
  /\ tool_result = Returned(<<"RESULT: ", "Order must be delivered to process return">>)
  /\ orders["ORD003"] = OrdersAtImport["ORD003"]

\* C25: of the concurrent cancel_order calls on one order at most one
\* returns success, however their steps interleave; every other call on
\* that order returns that the order cannot be cancelled.
C25_AtMostOneCancelSucceeds ==
  \A id \in CancelIds :
    Cardinality({c \in Cancellers : id \in cancellers[c].succeeded}) <= 1

\* C26: in every state of the order database an order that can be cancelled
\* is in processing and a cancelled order cannot be cancelled; no step
\* changes a cancelled order; a shipped or delivered order never becomes
\* cancelled; and of the cancel_order calls made one after the other only
\* one per order succeeds, the one that finds the order not yet cancelled.
C26_OrderStates ==
  /\ [](\A id \in DOMAIN orders :
          /\ orders[id].can_cancel => orders[id].status = "processing"
          /\ orders[id].status = "cancelled" => ~orders[id].can_cancel)
  /\ [][\A id \in DOMAIN orders :
          /\ orders[id].status = "cancelled" => orders'[id] = orders[id]
          /\ orders[id].status \in {"shipped", "delivered"}
               => orders'[id].status # "cancelled"]_vars
  /\ [][(Calls("cancel_order") /\ tool_result' = CancelSucceeded) =>
          /\ orders[tool_call'.arg[1]].status # "cancelled"
          /\ orders'[tool_call'.arg[1]].status = "cancelled"]_vars

\* what a session can observe: its login state, the context its next
\* message is processed with, and what the order tools answer it
Observable(t) ==
  <<ui[t], GetContext(sessions, t), passed[t],
    [name \in SessionTools |->
       [id \in DOMAIN orders |-> ToolRun(name, <<id>>, orders)]]>>

\* C21: no operation of one session, a login, a logout, a message or a tool
\* call, changes anything another session can observe.
C21_SessionsIndependent ==
  [][\A s \in SessionIds :
       actor'.session = s =>
         \A t \in SessionIds \ {s} : Observable(t)' = Observable(t)]_vars

IdentityKeys == {"customer_id", "customer_email"}

\* C30: the context passed with a message reflects the login state of its
\* session at that moment: logged out, it has no customer_id and no
\* customer_email; logged in, every identity in it is the one of the latest
\* login.
C30_ContextFollowsLogin ==
  [][\A s \in SessionIds :
       actor' = Acted(s, "message") =>
         \A k \in DOMAIN passed'[s] \cap IdentityKeys :
           /\ ui[s].customer_authenticated
           /\ passed'[s][k] = ui[s].current_customer]_vars

====
